---------------------------- MODULE Spec2Model ----------------------------
(***************************************************************************)
(* A model of the agent of src/agent.py: the JSON-RPC transport to the MCP *)
(* child process, the handshake, the token-budgeted prompt builder and the *)
(* reasoning loop with its persisted history.                              *)
(*                                                                         *)
(* Texts are modelled by what the code does with them.  A backend response *)
(* is a sequence of lexical tokens on which the two regular expressions of *)
(* run() and json.loads are computed; a text that is only measured         *)
(* (estimate_tokens) is modelled by its measure: characters and words.     *)
(***************************************************************************)
EXTENDS Integers, Sequences, FiniteSets, TLC

(***************************************************************************)
(* JSON values.  Every value is a record with the same four fields, so     *)
(* that any two values can be compared: t is the type tag, s the payload   *)
(* of a string (or "true"/"false"/"null" for a literal), f the members of  *)
(* an object (a function from keys), l the elements of an array.           *)
(***************************************************************************)
JStr(str) == [t |-> "str", s |-> str, n |-> 0, f |-> <<>>, l |-> <<>>]

JLit(str) == [t |-> "lit", s |-> str, n |-> 0, f |-> <<>>, l |-> <<>>]

JNum(k) == [t |-> "num", s |-> "", n |-> k, f |-> <<>>, l |-> <<>>]

JObj(fields) == [t |-> "obj", s |-> "", n |-> 0, f |-> fields, l |-> <<>>]

JList(elems) == [t |-> "list", s |-> "", n |-> 0, f |-> <<>>, l |-> elems]

\* Python's None, which dict.get returns for a missing key
None == JLit("null")

EmptyObj == JObj(<<>>)

IsDict(v) == v.t = "obj"

IsList(v) == v.t = "list"

IsStr(v) == v.t = "str"

\* key in d, for a dict d
HasKey(d, key) == key \in DOMAIN d.f

\* Python truthiness of a JSON value
Truthy(v) ==
    CASE v.t = "str" -> v.s /= ""
      [] v.t = "lit" -> v.s = "true"
      [] v.t = "obj" -> DOMAIN v.f /= {}
      [] v.t = "list" -> Len(v.l) > 0
      [] v.t = "num" -> v.n /= 0

\* d.get(key), None when the key is missing
Get(d, key) == IF key \in DOMAIN d.f THEN d.f[key] ELSE None

\* d.get(key, default)
GetOr(d, key, default) == IF key \in DOMAIN d.f THEN d.f[key] ELSE default

\* v == k for a Python int k (True == 1 and False == 0 in Python)
PyEqInt(v, k) ==
    \/ v.t = "num" /\ v.n = k
    \/ v.t = "lit" /\ v.s = "true" /\ k = 1
    \/ v.t = "lit" /\ v.s = "false" /\ k = 0

Max(a, b) == IF a >= b THEN a ELSE b

(***************************************************************************)
(* Measures of texts.  estimate_tokens reads only len(text) and            *)
(* len(text.split()), so a text that is only measured is modelled by that  *)
(* pair.  A long string is a symbolic name with a stated size.             *)
(***************************************************************************)
\* len(s) of a string value; the symbolic names stand for long texts
StrChars(str) ==
    CASE str = "<text-9000>" -> 9000
      [] str = "<text-wordy>" -> 7000
      [] str = "<text-30000>" -> 30000
      [] str = "<task-long>" -> 20000
      [] OTHER -> Len(str)

\* len(s.split()) of a string value
StrWords(str) ==
    CASE str = "<text-9000>" -> 1500
      [] str = "<text-wordy>" -> 2400
      [] str = "<text-30000>" -> 5000
      [] str = "<task-long>" -> 1
      [] str = "" -> 0
      [] str = "greet user" -> 2
      [] str = "new goal" -> 2
      [] str = "No JSON object found" -> 4
      [] str = "Invalid tool call structure in Gemma3 4B response" -> 8
      [] str = "json decode error" -> 3
      [] str = "User rejected the answer." -> 4
      [] str = "Your detailed answer here." -> 4
      [] str = "fix it" -> 2
      [] OTHER -> 1

RECURSIVE DumpChars(_, _), DumpWords(_), MembersChars(_, _, _), MembersWords(_, _)
RECURSIVE ElemsChars(_, _, _), ElemsWords(_, _)

\* len(json.dumps(v, indent=2, ensure_ascii=False)) for a value that starts
\* at nesting depth d
DumpChars(v, d) ==
    CASE v.t = "str" -> StrChars(v.s) + 2
      [] v.t = "lit" -> Len(v.s)
      [] v.t = "num" -> 1
      [] v.t = "obj" ->
            IF DOMAIN v.f = {} THEN 2
            ELSE 1 + MembersChars(v.f, DOMAIN v.f, d + 1)
                   + (Cardinality(DOMAIN v.f) - 1) + 1 + 2 * d + 1
      [] v.t = "list" ->
            IF Len(v.l) = 0 THEN 2
            ELSE 1 + ElemsChars(v.l, Len(v.l), d + 1) + (Len(v.l) - 1) + 1 + 2 * d + 1

\* the members of an object, each on its own line: newline, indentation,
\* the quoted key, colon and space, the value
MembersChars(fn, keys, d) ==
    IF keys = {} THEN 0
    ELSE LET k == CHOOSE x \in keys : TRUE
         IN  1 + 2 * d + Len(k) + 4 + DumpChars(fn[k], d) + MembersChars(fn, keys \ {k}, d)

ElemsChars(l, n, d) ==
    IF n = 0 THEN 0
    ELSE 1 + 2 * d + DumpChars(l[n], d) + ElemsChars(l, n - 1, d)

\* len(json.dumps(v, indent=2, ensure_ascii=False).split())
DumpWords(v) ==
    CASE v.t = "str" -> Max(1, StrWords(v.s))
      [] v.t = "lit" -> 1
      [] v.t = "num" -> 1
      [] v.t = "obj" ->
            IF DOMAIN v.f = {} THEN 1 ELSE 2 + MembersWords(v.f, DOMAIN v.f)
      [] v.t = "list" ->
            IF Len(v.l) = 0 THEN 1 ELSE 2 + ElemsWords(v.l, Len(v.l))

MembersWords(fn, keys) ==
    IF keys = {} THEN 0
    ELSE LET k == CHOOSE x \in keys : TRUE
         IN  1 + DumpWords(fn[k]) + MembersWords(fn, keys \ {k})

ElemsWords(l, n) ==
    IF n = 0 THEN 0 ELSE DumpWords(l[n]) + ElemsWords(l, n - 1)

\* the measure [c: characters, w: words] of json.dumps(v, indent=2)
DumpMeasure(v) == [c |-> DumpChars(v, 0), w |-> DumpWords(v)]

\* estimate_tokens(text), on the measure of the text
estimate_tokens(m) == Max(m.c \div 4, m.w)

(***************************************************************************)
(* The context budgeter: Agent._create_reasoning_prompt.                   *)
(***************************************************************************)
\* "Limit context to 5000 tokens"
ContextLimit == 5000

\* len(system_prompt) and len(system_prompt.split())
SystemPromptChars == 143

SystemPromptWords == 24

\* len and word count of base_prompt_template with an empty task and with
\* the placeholder {HISTORY_PLACEHOLDER} taken out (the tool hints included)
TemplateChars == 1324

TemplateWords == 148

\* max_context_tokens = 5000 - system_tokens
max_context_tokens ==
    ContextLimit - estimate_tokens([c |-> SystemPromptChars, w |-> SystemPromptWords])

\* The measure of base_prompt_template.replace("{HISTORY_PLACEHOLDER}",
\* json.dumps(hist, indent=2, ensure_ascii=False)).  The task stands between
\* quotes (an empty task is the one word ""), the dump between a space and
\* a newline, so both counts add up.
PromptMeasure(task, hist) ==
    [c |-> TemplateChars + StrChars(task) + DumpChars(JList(hist), 0),
     w |-> TemplateWords + Max(1, StrWords(task)) + DumpWords(JList(hist))]

\* "if test_tokens <= max_context_tokens"
FitsLimit(test_tokens) == test_tokens <= max_context_tokens

\* mutant of ExceedsLimit: the final check left out
ExceedsLimitNever(prompt_tokens) == FALSE

\* "if prompt_tokens > max_context_tokens"
ExceedsLimit(prompt_tokens) == prompt_tokens > max_context_tokens

RECURSIVE LimitHistorySkipping(_, _, _, _)
\* mutant of LimitHistory: an item that does not fit is skipped (continue)
\* instead of ending the walk (break)
LimitHistorySkipping(task, history, i, limited_history) ==
    IF i = 0 THEN limited_history
    ELSE LET test_history == <<history[i]>> \o limited_history
             test_tokens == estimate_tokens(PromptMeasure(task, test_history))
         IN  IF FitsLimit(test_tokens)
             THEN LimitHistorySkipping(task, history, i - 1, test_history)
             ELSE LimitHistorySkipping(task, history, i - 1, limited_history)

RECURSIVE LimitHistory(_, _, _, _)
\* "for item in reversed(history)": items history[i], history[i-1], ... are
\* tried in turn, each inserted in front of limited_history, until one does
\* not fit
LimitHistory(task, history, i, limited_history) ==
    IF i = 0 THEN limited_history
    ELSE LET test_history == <<history[i]>> \o limited_history
             test_tokens == estimate_tokens(PromptMeasure(task, test_history))
         IN  IF FitsLimit(test_tokens)
             THEN LimitHistory(task, history, i - 1, test_history)
             ELSE limited_history

\* _create_reasoning_prompt(task, history).  The result names what the
\* caller gets: raises (the f-string of minimal_prompt holds the replacement
\* field {"action": {...}}, whose format specification " Ellipsis" makes
\* str.__format__ raise ValueError, so the forced branch never returns),
\* else the prompt (the history items serialized in it and its measure),
\* needs_reset and items_to_keep.
create_reasoning_prompt(task, history) ==
    LET limited_history == LimitHistory(task, history, Len(history), <<>>)
        prompt_m == PromptMeasure(task, limited_history)
        prompt_tokens == estimate_tokens(prompt_m)
    IN  IF ExceedsLimit(prompt_tokens)
        THEN [raises |-> TRUE, forced |-> TRUE, items |-> <<>>, m |-> prompt_m,
              needs_reset |-> TRUE, items_to_keep |-> 0]
        ELSE LET needs_reset == Len(limited_history) < Len(history) /\ Len(history) > 0
             IN  [raises |-> FALSE, forced |-> FALSE, items |-> limited_history,
                  m |-> prompt_m, needs_reset |-> needs_reset,
                  items_to_keep |-> IF needs_reset THEN Len(limited_history)
                                    ELSE Len(history)]

(***************************************************************************)
(* State.                                                                  *)
(***************************************************************************)
VARIABLES
    pc,                 \* where the main thread of agent.py stands
    request_id,         \* Agent.request_id
    child,              \* the MCP child process: "none", "running", "exited", "killed"
    stdout_queue,       \* Agent.stdout_queue: the lines read from the child's stdout
    sent,               \* the payloads written to the child's stdin, in order
    elapsed,            \* time.time() - start_time of the running wait loop, in
                        \*   ticks; 0 once the loop has ended otherwise than by its
                        \*   timeout
    got_init_response,  \* local of _perform_handshake
    tool_names,         \* local of _perform_handshake
    shutdown_log,       \* the calls Agent.shutdown has made on the child
    exc,                \* the exception that ended the main thread, "" if none
    current_id,         \* local of call_mcp_tool
    tool_name,          \* local of run
    tool_args,          \* local of run
    result,             \* local of run: what call_mcp_tool returned
    task,               \* local of run
    history,            \* local of run
    built,              \* what _create_reasoning_prompt returned last
    step,               \* local of run (0 before run has set it)
    response_text,      \* local of run: the name of the backend's response
    goal_file,          \* goal.txt
    history_file,       \* history.json
    paused_flag,        \* whether paused.flag exists
    correction_file,    \* correction.txt
    cycles,             \* passes of the loop of run begun so far, over all runs
    restarts,           \* agent processes started after a crash
    panel_ops,          \* requests served by the control panel of app.py
    failures,           \* writes of history.json that have failed
    run_result,         \* how run returned: "", "no goal", "goal achieved"
    seen_init,          \* history variable: the handshake read the initialize response
    seen_ready,         \* history variable: the handshake read a tools_ready notification
    last_ret,           \* history variable: how the last _wait_for_response ended
    calls,              \* history variable: the tool calls that returned, in order
    reqlog,             \* history variable: the requests of this Agent in the order
                        \*   their ids were taken, each with what became of it
    cyc,                \* history variable: the state at the last backend call
    pure,               \* history variable: this run began with no history and has
                        \*   only made passes that dispatched a tool call and saved
    expect,             \* history variable: the history of such a run when it crashed
    write_failed,       \* history variable: the last write of history.json failed
    persisted,          \* history variable: the items of the last write of
                        \*   history.json that was completed, less those that a
                        \*   reset of history has removed since
    correction_text,    \* local of run: what was read from correction.txt
    submit,             \* the submit_correction request of app.py being served
    pid_file,           \* agent.pid: 0 when there is no file, else the pid in it
    alive,              \* the pids of the agent processes that are running
    handlers,           \* the /start and /stop requests of app.py being served
    launched            \* agent processes launched by app.py so far

transportVars ==
    <<request_id, child, stdout_queue, sent, elapsed, got_init_response, tool_names,
      shutdown_log, exc, current_id, tool_name, tool_args, result>>

memVars == <<task, history, built, step, response_text>>

fileVars == <<goal_file, history_file, paused_flag, correction_file>>

boundVars == <<cycles, restarts, panel_ops, failures>>

runGhost == <<run_result, cyc, pure, expect, write_failed>>

runVars == <<memVars, fileVars, boundVars, runGhost>>

ghostVars == <<seen_init, seen_ready, last_ret, calls, reqlog>>

panelVars == <<correction_text, submit, pid_file, alive, handlers, launched>>

vars == <<pc, transportVars, runVars, ghostVars, persisted, panelVars>>

(***************************************************************************)
(* Bounds of the model.                                                    *)
(***************************************************************************)
\* the 3600 s of both wait loops, in ticks of the model's clock
TimeoutTicks == 2

\* lines waiting in stdout_queue (the queue of the code is unbounded)
MaxQueue == 2

\* requests sent in one run of the transport model (initialize included)
MaxReq == 3

\* items of a history the budgeter is applied to
MaxHistory == 3

\* passes of the loop of run, over all runs of the loop model
MaxCycles == 2

\* agent processes started after a crash
MaxRestarts == 1

\* pauses and corrections the control panel serves in the loop model (the
\* goal is updated at most once in a pause)
MaxPanelOps == 1

\* writes of history.json that fail in the loop model
MaxWriteFailures == 1

\* corrections submitted to the control panel
MaxCorrections == 2

\* passes of the loop in the model of the correction file
MaxPasses == 3

\* requests the control panel serves at the same time
MaxHandlers == 2

\* agent processes the control panel launches
MaxLaunches == 3

(***************************************************************************)
(* Lines of the child's stdout and json.loads of a line.                   *)
(***************************************************************************)
\* a line that is not JSON: json.loads raises JSONDecodeError
Garbage == [parse |-> "fail", val |-> None]

\* a line holding the JSON text of v
LineOf(v) == [parse |-> "ok", val |-> v]

Response(id, res) == LineOf(JObj([k \in {"jsonrpc", "id", "result"} |->
    CASE k = "jsonrpc" -> JStr("2.0") [] k = "id" -> JNum(id) [] k = "result" -> res]))

ErrorResponse(id) == LineOf(JObj([k \in {"jsonrpc", "id", "error"} |->
    CASE k = "jsonrpc" -> JStr("2.0") [] k = "id" -> JNum(id)
      [] k = "error" -> JObj([m \in {"message"} |-> JStr("failed")])]))

Notification(method) == LineOf(JObj([k \in {"jsonrpc", "method"} |->
    CASE k = "jsonrpc" -> JStr("2.0") [] k = "method" -> JStr(method)]))

ToolsReady(tools) == LineOf(JObj([k \in {"jsonrpc", "method", "params"} |->
    CASE k = "jsonrpc" -> JStr("2.0") [] k = "method" -> JStr("tools_ready")
      [] k = "params" -> JObj([m \in {"tools"} |-> JList(tools)])]))

\* a tool result with a content list, as an MCP server returns it
ContentResult(text) ==
    JObj([k \in {"content"} |-> JList(<<JObj([m \in {"text"} |-> JStr(text)])>>)])

\* what the child may print in the transport model: noise (not JSON, JSON
\* that is no object, a notification), tools_ready with and without tools,
\* and responses, with a result or an error, to any id
RichLines ==
    {Garbage, LineOf(JList(<<>>)), Notification("log"),
     ToolsReady(<<>>), ToolsReady(<<JStr("messages")>>)}
    \cup {Response(i, r) : i \in 1..MaxReq, r \in {EmptyObj, ContentResult("ok")}}
    \cup {ErrorResponse(i) : i \in 1..MaxReq}

(***************************************************************************)
(* The payloads written to the child.                                      *)
(***************************************************************************)
Payload(id, method, name, arguments) ==
    [id |-> id, method |-> method, name |-> name, arguments |-> arguments]

InitializePayload(id) == Payload(id, "initialize", None, EmptyObj)

InitializedPayload == Payload(0, "notifications/initialized", None, EmptyObj)

ToolsCallPayload(id, name, arguments) == Payload(id, "tools/call", name, arguments)

\* _send_mcp_raw: stdin is never closed on the agent's side, so the guard
\* passes; the write reaches the child while it runs, and raises
\* BrokenPipeError once the child is gone
SendRaises == child /= "running"

(***************************************************************************)
(* Agent.shutdown: terminate(), wait(timeout=5) and, when the wait timed   *)
(* out, kill().  A running child either exits within the five seconds or   *)
(* does not; a child that is gone already makes terminate a no-op.         *)
(***************************************************************************)
\* mutant of ShutdownOutcomes: the kill after the timed-out wait is missing
ShutdownWithoutKill ==
    IF child = "running"
    THEN {[child |-> "exited", log |-> <<"terminate", "wait">>],
          [child |-> "running", log |-> <<"terminate", "wait">>]}
    ELSE {[child |-> child, log |-> <<"terminate", "wait">>]}

ShutdownOutcomes ==
    IF child = "running"
    THEN {[child |-> "exited", log |-> <<"terminate", "wait">>],
          [child |-> "killed", log |-> <<"terminate", "wait", "kill">>]}
    ELSE {[child |-> child, log |-> <<"terminate", "wait">>]}

(***************************************************************************)
(* The child and the clock.                                                *)
(***************************************************************************)
\* _enqueue_output: a line the child printed is put on stdout_queue
ChildEmit(lines) ==
    /\ child = "running"
    /\ pc \notin {"boot", "exited"}
    /\ Len(stdout_queue) < MaxQueue
    /\ \E line \in lines : stdout_queue' = Append(stdout_queue, line)
    /\ UNCHANGED <<pc, request_id, child, sent, elapsed, got_init_response, tool_names,
                   shutdown_log, exc, current_id, tool_name, tool_args, result,
                   runVars, ghostVars>>
    /\ UNCHANGED <<persisted, panelVars>>

\* the child ends by itself: its end of the pipes is closed
ChildExit ==
    /\ child = "running"
    /\ pc \notin {"boot", "exited"}
    /\ child' = "exited"
    /\ UNCHANGED <<pc, request_id, stdout_queue, sent, elapsed, got_init_response,
                   tool_names, shutdown_log, exc, current_id, tool_name, tool_args,
                   result, runVars, ghostVars>>
    /\ UNCHANGED <<persisted, panelVars>>

\* time passes while a wait loop runs
Tick ==
    /\ pc \in {"handshake", "wait"}
    /\ elapsed < TimeoutTicks
    /\ elapsed' = elapsed + 1
    /\ UNCHANGED <<pc, request_id, child, stdout_queue, sent, got_init_response,
                   tool_names, shutdown_log, exc, current_id, tool_name, tool_args,
                   result, runVars, ghostVars>>
    /\ UNCHANGED <<persisted, panelVars>>

(***************************************************************************)
(* Agent.__init__ and _perform_handshake.                                  *)
(***************************************************************************)
\* "self.request_id += 1"
NextIdSame(id) == id

NextId(id) == id + 1

\* the log with the open request id marked how (response, timeout)
Resolve(log, id, how) ==
    [i \in 1..Len(log) |->
        IF log[i].id = id /\ log[i].state = "open"
        THEN [id |-> id, state |-> how]
        ELSE log[i]]

\* __init__ up to the first poll of the handshake: request_id = 1, the child
\* is started, the reader threads are started, the initialize request takes
\* id 1 and is written
Construct ==
    /\ pc = "boot"
    /\ child' = "running"
    /\ request_id' = NextId(1)
    /\ sent' = Append(sent, InitializePayload(1))
    /\ reqlog' = <<[id |-> 1, state |-> "open"]>>
    /\ stdout_queue' = <<>>
    /\ got_init_response' = FALSE
    /\ tool_names' = JList(<<>>)
    /\ elapsed' = 0
    /\ pc' = "handshake"
    /\ UNCHANGED <<shutdown_log, exc, current_id, tool_name, tool_args, result,
                   runVars, seen_init, seen_ready, last_ret, calls>>
    /\ UNCHANGED <<persisted, panelVars>>

\* _start_mcp_process: the command is not found, RuntimeError leaves
\* __init__, and __main__ has no agent to shut down
StartFails ==
    /\ pc = "boot"
    /\ pc' = "exited"
    /\ exc' = "RuntimeError: Could not find MCP server command"
    /\ request_id' = 1
    /\ UNCHANGED <<child, stdout_queue, sent, elapsed, got_init_response, tool_names,
                   shutdown_log, current_id, tool_name, tool_args, result,
                   runVars, ghostVars>>
    /\ UNCHANGED <<persisted, panelVars>>

\* mutant of HandshakeReady: the tool names alone make Ready
HandshakeReadyOnNames(got, names) == Truthy(names)

\* "if got_init_response and tool_names: break"
HandshakeReady(got, names) == got /\ Truthy(names)

\* one pass of the handshake loop that gets a line from the queue
HandshakeRecv ==
    /\ pc = "handshake"
    /\ elapsed < TimeoutTicks
    /\ stdout_queue /= <<>>
    /\ LET line == Head(stdout_queue)
           msg == line.val
           init_id == 1
           is_init == PyEqInt(Get(msg, "id"), init_id)
           is_ready == ~is_init /\ Get(msg, "method") = JStr("tools_ready")
           got == got_init_response \/ is_init
           names == IF is_ready
                    THEN GetOr(GetOr(msg, "params", EmptyObj), "tools", JList(<<>>))
                    ELSE tool_names
       IN  /\ stdout_queue' = Tail(stdout_queue)
           /\ IF line.parse = "fail"
              THEN \* json.JSONDecodeError: continue
                   UNCHANGED <<pc, got_init_response, tool_names, sent, exc,
                               seen_init, seen_ready>>
              ELSE IF ~IsDict(msg)
              THEN \* msg.get on a list, a string or a number: AttributeError
                   \* leaves __init__; __main__ has no agent to shut down
                   /\ pc' = "exited"
                   /\ exc' = "AttributeError"
                   /\ UNCHANGED <<got_init_response, tool_names, sent,
                                  seen_init, seen_ready>>
              ELSE /\ got_init_response' = got
                   /\ tool_names' = names
                   /\ seen_init' = (seen_init \/ is_init)
                   /\ seen_ready' = (seen_ready \/ is_ready)
                   /\ IF HandshakeReady(got, names)
                      THEN \* break; notifications/initialized; return tool_names
                           IF SendRaises
                           THEN pc' = "exited" /\ exc' = "BrokenPipeError"
                                /\ UNCHANGED sent
                           ELSE pc' = "run_start" /\ UNCHANGED exc
                                /\ sent' = Append(sent, InitializedPayload)
                      ELSE UNCHANGED <<pc, sent, exc>>
    /\ elapsed' = IF pc' = "handshake" THEN elapsed ELSE 0
    /\ reqlog' = IF seen_init' /\ ~seen_init THEN Resolve(reqlog, 1, "response")
                 ELSE reqlog
    /\ UNCHANGED <<request_id, child, shutdown_log, current_id, tool_name,
                   tool_args, result, runVars, last_ret, calls>>
    /\ UNCHANGED <<persisted, panelVars>>

\* the else branch of the handshake loop: the window is over
HandshakeTimeout ==
    /\ pc = "handshake"
    /\ elapsed >= TimeoutTicks
    /\ \E o \in ShutdownOutcomes :
          /\ child' = o.child
          /\ shutdown_log' = shutdown_log \o o.log
    /\ exc' = "RuntimeError: Handshake timed out"
    /\ pc' = "exited"
    /\ reqlog' = Resolve(reqlog, 1, "timeout")
    /\ UNCHANGED <<request_id, stdout_queue, sent, elapsed, got_init_response,
                   tool_names, current_id, tool_name, tool_args, result,
                   runVars, seen_init, seen_ready, last_ret, calls>>
    /\ UNCHANGED <<persisted, panelVars>>

(***************************************************************************)
(* call_mcp_tool and _wait_for_response.                                   *)
(***************************************************************************)
NoReturn ==
    [id |-> 0, how |-> "none", line |-> Garbage, value |-> EmptyObj, queued |-> FALSE]

\* whether a response whose id is id waits among the lines q
ResponseQueued(q, id) ==
    \E i \in 1..Len(q) :
        /\ q[i].parse = "ok"
        /\ IsDict(q[i].val)
        /\ PyEqInt(Get(q[i].val, "id"), id)

\* call_mcp_tool up to the first poll of _wait_for_response: the request
\* takes the next id and is written
CallMcpTool ==
    /\ pc = "dispatch"
    /\ current_id' = request_id
    /\ request_id' = NextId(request_id)
    /\ reqlog' = Append(reqlog, [id |-> request_id,
                                 state |-> IF SendRaises THEN "unwritten" ELSE "open"])
    /\ IF SendRaises
       THEN /\ pc' = "finally"
            /\ exc' = "BrokenPipeError"
            /\ UNCHANGED <<sent, elapsed>>
       ELSE /\ sent' = Append(sent, ToolsCallPayload(request_id, tool_name, tool_args))
            /\ elapsed' = 0
            /\ pc' = "wait"
            /\ UNCHANGED exc
    /\ UNCHANGED <<child, stdout_queue, got_init_response, tool_names, shutdown_log,
                   tool_name, tool_args, result, runVars, seen_init, seen_ready,
                   last_ret, calls>>
    /\ UNCHANGED <<persisted, panelVars>>

\* "if response.get('id') == request_id"
IdMatches(response, id) == PyEqInt(Get(response, "id"), id)

\* one pass of the loop of _wait_for_response that gets a line
WaitRecv ==
    /\ pc = "wait"
    /\ elapsed < TimeoutTicks
    /\ stdout_queue /= <<>>
    /\ LET line == Head(stdout_queue)
           response == line.val
       IN  /\ stdout_queue' = Tail(stdout_queue)
           /\ IF line.parse = "fail"
              THEN \* json.JSONDecodeError: continue
                   UNCHANGED <<pc, result, exc, last_ret, calls>>
              ELSE IF ~IsDict(response)
              THEN \* response.get on a list, a string or a number:
                   \* AttributeError leaves _wait_for_response and run
                   /\ pc' = "finally"
                   /\ exc' = "AttributeError"
                   /\ last_ret' = [id |-> current_id, how |-> "raise", line |-> line,
                                   value |-> EmptyObj,
                                   queued |-> ResponseQueued(Tail(stdout_queue),
                                                             current_id)]
                   /\ UNCHANGED <<result, calls>>
              ELSE IF IdMatches(response, current_id)
              THEN LET value == IF HasKey(response, "error") THEN EmptyObj
                                ELSE GetOr(response, "result", EmptyObj)
                   IN  /\ result' = value
                       /\ pc' = "after_call"
                       /\ last_ret' = [id |-> current_id,
                                       how |-> IF HasKey(response, "error")
                                               THEN "error" ELSE "result",
                                       line |-> line, value |-> value,
                                       queued |-> TRUE]
                       /\ calls' = Append(calls, [name |-> tool_name,
                                                  arguments |-> tool_args,
                                                  result |-> value])
                       /\ UNCHANGED exc
              ELSE \* another id, or a notification: dropped
                   UNCHANGED <<pc, result, exc, last_ret, calls>>
    /\ elapsed' = IF pc' = "wait" THEN elapsed ELSE 0
    /\ reqlog' = IF pc' = "after_call" THEN Resolve(reqlog, current_id, "response")
                 ELSE reqlog
    /\ UNCHANGED <<request_id, child, sent, got_init_response, tool_names,
                   shutdown_log, current_id, tool_name, tool_args, runVars,
                   seen_init, seen_ready>>
    /\ UNCHANGED <<persisted, panelVars>>

\* the loop of _wait_for_response ends on its condition: the empty marker
WaitTimeout ==
    /\ pc = "wait"
    /\ elapsed >= TimeoutTicks
    /\ result' = EmptyObj
    /\ pc' = "after_call"
    /\ last_ret' = [id |-> current_id, how |-> "timeout", line |-> Garbage,
                    value |-> EmptyObj,
                    queued |-> ResponseQueued(stdout_queue, current_id)]
    /\ calls' = Append(calls, [name |-> tool_name, arguments |-> tool_args,
                               result |-> EmptyObj])
    /\ elapsed' = 0
    /\ reqlog' = Resolve(reqlog, current_id, "timeout")
    /\ UNCHANGED <<request_id, child, stdout_queue, sent, got_init_response,
                   tool_names, shutdown_log, exc, current_id, tool_name, tool_args,
                   runVars, seen_init, seen_ready>>
    /\ UNCHANGED <<persisted, panelVars>>

\* __main__: the finally clause, once run has returned or raised
MainFinally ==
    /\ pc = "finally"
    /\ \E o \in ShutdownOutcomes :
          /\ child' = o.child
          /\ shutdown_log' = shutdown_log \o o.log
    /\ pc' = "exited"
    /\ UNCHANGED <<request_id, stdout_queue, sent, elapsed, got_init_response,
                   tool_names, exc, current_id, tool_name, tool_args, result,
                   runVars, ghostVars>>
    /\ UNCHANGED <<persisted, panelVars>>

(***************************************************************************)
(* The transport on its own: the agent is constructed and a caller, which  *)
(* stands for step 3 of the loop of run, makes tool calls one after the    *)
(* other while the child prints any of RichLines.                          *)
(***************************************************************************)
ToolArgs(method) == JObj([k \in {"method"} |-> JStr(method)])

TransportCaller ==
    /\ pc \in {"run_start", "after_call"}
    /\ request_id <= MaxReq
    /\ tool_name' = JStr("messages")
    /\ \E m \in {"get_unread_messages", "send_message"} : tool_args' = ToolArgs(m)
    /\ pc' = "dispatch"
    /\ UNCHANGED <<request_id, child, stdout_queue, sent, elapsed, got_init_response,
                   tool_names, shutdown_log, exc, current_id, result, runVars,
                   ghostVars>>
    /\ UNCHANGED <<persisted, panelVars>>

\* the caller is done: run returns and __main__ goes to its finally clause
TransportCallerEnds ==
    /\ pc \in {"run_start", "after_call"}
    /\ pc' = "finally"
    /\ UNCHANGED <<transportVars, runVars, ghostVars>>
    /\ UNCHANGED <<persisted, panelVars>>

ChildEmitRich == ChildEmit(RichLines)

InitTransport ==
    /\ request_id = 1
    /\ child = "none"
    /\ stdout_queue = <<>>
    /\ sent = <<>>
    /\ elapsed = 0
    /\ got_init_response = FALSE
    /\ tool_names = JList(<<>>)
    /\ shutdown_log = <<>>
    /\ exc = ""
    /\ current_id = 0
    /\ tool_name = None
    /\ tool_args = EmptyObj
    /\ result = EmptyObj
    /\ seen_init = FALSE
    /\ seen_ready = FALSE
    /\ last_ret = NoReturn
    /\ calls = <<>>
    /\ reqlog = <<>>

NotBuilt == [ready |-> FALSE]

NoCycle == [done |-> FALSE, resp |-> "", hist0 |-> <<>>, step0 |-> 0, sent0 |-> 0]

NoExpect == [on |-> FALSE, items |-> <<>>]

\* a file that does not exist
NoFile == [exists |-> FALSE, text |-> <<>>]

\* a text file that does not exist
NoTextFile == [exists |-> FALSE, text |-> ""]

TextFile(str) == [exists |-> TRUE, text |-> str]

\* the locals of run before run is called, and no file but the goal
\* a thread of the panel that serves no request
IdleHandler == [op |-> "none", at |-> "idle", pid |-> 0]

\* no request of the control panel is being served, no agent process has
\* been launched by it
InitPanel ==
    /\ correction_text = ""
    /\ submit = [at |-> "idle", text |-> "", n |-> 0]
    /\ pid_file = 0
    /\ alive = {}
    /\ handlers = [h \in 1..MaxHandlers |-> IdleHandler]
    /\ launched = 0

InitRun ==
    /\ built = NotBuilt
    /\ step = 0
    /\ response_text = ""
    /\ history_file = NoFile
    /\ paused_flag = FALSE
    /\ correction_file = NoTextFile
    /\ cycles = 0
    /\ restarts = 0
    /\ panel_ops = 0
    /\ failures = 0
    /\ run_result = ""
    /\ cyc = NoCycle
    /\ pure = FALSE
    /\ expect = NoExpect
    /\ write_failed = FALSE

InitT ==
    /\ pc = "boot"
    /\ InitTransport
    /\ InitRun
    /\ task = ""
    /\ history = <<>>
    /\ goal_file = NoTextFile
    /\ persisted = <<>>
    /\ InitPanel

NextT ==
    \/ Construct
    \/ StartFails
    \/ ChildEmitRich
    \/ ChildExit
    \/ Tick
    \/ HandshakeRecv
    \/ HandshakeTimeout
    \/ TransportCaller
    \/ TransportCallerEnds
    \/ CallMcpTool
    \/ WaitRecv
    \/ WaitTimeout
    \/ MainFinally

SpecTransport == InitT /\ [][NextT]_vars

(***************************************************************************)
(* The budgeter on its own: _create_reasoning_prompt applied to every task *)
(* and every history of at most MaxHistory items drawn from BudgetItems.   *)
(***************************************************************************)
\* {"action": {"tool": ..., "arguments": ...}, "result": ...}
ToolCallItem(name, arguments, res) ==
    JObj([k \in {"action", "result"} |->
        IF k = "action"
        THEN JObj([m \in {"tool", "arguments"} |->
                 IF m = "tool" THEN name ELSE arguments])
        ELSE res])

\* {"action": "reasoning_error", "raw_response": ..., "error": "No JSON object found"}
ReasoningErrorItem(raw) ==
    JObj([k \in {"action", "raw_response", "error"} |->
        CASE k = "action" -> JStr("reasoning_error")
          [] k = "raw_response" -> JStr(raw)
          [] k = "error" -> JStr("No JSON object found")])

\* items of several sizes: small ones, one of which two fit and three do
\* not, one whose words and not whose characters decide, one that never fits
BudgetItems ==
    {ReasoningErrorItem(""),
     ToolCallItem(JStr("messages"), ToolArgs("send_message"), EmptyObj),
     ToolCallItem(JStr("messages"), ToolArgs("get_history"), ContentResult("<text-9000>")),
     ToolCallItem(JStr("messages"), ToolArgs("get_history"), ContentResult("<text-wordy>")),
     ToolCallItem(JStr("messages"), ToolArgs("get_history"), ContentResult("<text-30000>"))}

\* a short task, and one so long that the prompt with no history is too big
BudgetTasks == {"greet user", "<task-long>"}

SeqsUpTo(S, n) == UNION {[1..k -> S] : k \in 0..n}

InitBudget ==
    /\ pc = "budget"
    /\ InitTransport
    /\ InitRun
    /\ goal_file = NoTextFile
    /\ persisted = <<>>
    /\ InitPanel
    /\ task \in BudgetTasks
    /\ history \in SeqsUpTo(BudgetItems, MaxHistory)

\* prompt, needs_reset, items_to_keep = self._create_reasoning_prompt(task, history)
BudgetBuild ==
    /\ pc = "budget"
    /\ built = NotBuilt
    /\ built' = [ready |-> TRUE, given |-> history]
                   @@ create_reasoning_prompt(task, history)
    /\ UNCHANGED <<pc, transportVars, task, history, step, response_text, fileVars,
                   boundVars, runGhost, ghostVars>>
    /\ UNCHANGED <<persisted, panelVars>>

NextBudget == BudgetBuild

SpecBudget == InitBudget /\ [][NextBudget]_vars

\* the suffix of the last k items of a sequence
Suffix(seq, k) == SubSeq(seq, Len(seq) - k + 1, Len(seq))

\* whether the prompt with the items hist fits the ceiling
WithinCeiling(tsk, hist) ==
    estimate_tokens(PromptMeasure(tsk, hist)) <= ContextLimit - 35

(***************************************************************************)
(* C2.  Whenever _create_reasoning_prompt does not take the forced-minimal *)
(* branch, the estimated token count of the prompt it returns is at most   *)
(* the ceiling, 5000 minus the estimate of the system prompt; the measure  *)
(* it reports is that of the template filled with the items it kept.       *)
(***************************************************************************)
C2_PromptWithinCeiling ==
    (built.ready /\ ~built.forced) =>
        /\ ~built.raises
        /\ built.m = PromptMeasure(task, built.items)
        /\ estimate_tokens(built.m) <= ContextLimit - 35

\* a history was cut to a non-empty part of it, and the prompt fits
C2_Witness ==
    /\ built.ready
    /\ ~built.forced
    /\ Len(built.items) > 0
    /\ Len(built.items) < Len(history)
    /\ estimate_tokens(built.m) > 4000

(***************************************************************************)
(* C3.  The items serialized into the prompt are the longest suffix of the *)
(* history whose prompt fits the ceiling: they are the last k items in     *)
(* their order, the prompt of that suffix fits unless the forced branch    *)
(* was taken, and no longer suffix fits.                                   *)
(***************************************************************************)
C3_LongestFittingSuffix ==
    built.ready =>
        LET k == Len(built.items)
        IN  /\ k <= Len(history)
            /\ built.items = Suffix(history, k)
            /\ ~built.forced => WithinCeiling(task, Suffix(history, k))
            /\ built.forced => k = 0 /\ ~WithinCeiling(task, <<>>)
            /\ \A j \in (k + 1)..Len(history) : ~WithinCeiling(task, Suffix(history, j))

\* a history of three items of which the last two, and not all three, fit
C3_Witness ==
    /\ built.ready
    /\ ~built.forced
    /\ Len(history) = 3
    /\ Len(built.items) = 2

Range(seq) == {seq[i] : i \in 1..Len(seq)}

(***************************************************************************)
(* C1.  Whatever lines arrive, a call for request id n that ends before    *)
(* its timeout ends by returning what the response with id n carries (its  *)
(* result, or the empty marker for its error), and it does so whenever     *)
(* that response is on the queue; it never returns what a response with    *)
(* another id carries.  (A call that ends by the timeout is left out: the  *)
(* formula says nothing about it.)                                         *)
(***************************************************************************)
C1_RoundTrip ==
    /\ last_ret.how \in {"result", "error"} =>
          /\ PyEqInt(Get(last_ret.line.val, "id"), last_ret.id)
          /\ last_ret.value = IF last_ret.how = "error" THEN EmptyObj
                              ELSE GetOr(last_ret.line.val, "result", EmptyObj)
    /\ last_ret.how = "raise" => ~last_ret.queued

(***************************************************************************)
(* C4.  Once the handshake has read, within its window, both the response  *)
(* to initialize and a tools_ready notification, in either order and with  *)
(* any other lines between them, it is Ready: its loop has ended.          *)
(***************************************************************************)
C4_HandshakeReady ==
    (seen_init /\ seen_ready) => pc /= "handshake"

(***************************************************************************)
(* C5.  When the handshake fails on its timeout, the error is the          *)
(* handshake-timeout error, Agent.shutdown has run on the child before the *)
(* error reached the caller (terminate, the bounded wait, and kill when    *)
(* the child outlived the wait, so that no child is left running), and no  *)
(* initialized notification was written.                                   *)
(***************************************************************************)
C5_TimeoutShutsDown ==
    /\ (pc = "handshake" /\ elapsed >= TimeoutTicks) =>
          /\ exc = ""
          /\ InitializedPayload \notin Range(sent)
    /\ exc = "RuntimeError: Handshake timed out" =>
          /\ pc = "exited"
          /\ elapsed >= TimeoutTicks
          /\ child \in {"exited", "killed"}
          /\ child = "exited" => shutdown_log = <<"terminate", "wait">>
          /\ child = "killed" => shutdown_log = <<"terminate", "wait", "kill">>
          /\ InitializedPayload \notin Range(sent)

\* the window ended with the initialize response read and no tools_ready,
\* and the child, which did not end on terminate, was killed
C5_Witness ==
    /\ exc = "RuntimeError: Handshake timed out"
    /\ seen_init
    /\ ~seen_ready
    /\ shutdown_log = <<"terminate", "wait", "kill">>

(***************************************************************************)
(* Backend responses.  A response text is a sequence of lexical tokens:    *)
(* the braces, an object key with its colon, a string literal, the opening *)
(* fence (three backquotes and json), the bare fence (three backquotes),   *)
(* and a word of prose.  White space and commas are not tokens.  A         *)
(* response is named, and the name stands for the text where the text is   *)
(* stored (raw_response).                                                  *)
(***************************************************************************)
Tok(kind, text) == [k |-> kind, v |-> text]

LBrace == Tok("sym", "{")

RBrace == Tok("sym", "}")

FenceJson == Tok("sym", "fence-json")

Fence == Tok("sym", "fence")

Key(name) == Tok("key", name)

Str(text) == Tok("str", text)

Word == Tok("txt", "text")

RECURSIVE ParseObject(_, _), ParseMembers(_, _, _)
\* json.loads on the tokens toks from position i, which holds an opening
\* brace: [ok, val, next], next being the position after the closing brace
ParseObject(toks, i) ==
    IF i > Len(toks) \/ toks[i] /= LBrace
    THEN [ok |-> FALSE, val |-> None, next |-> i]
    ELSE ParseMembers(toks, i + 1, <<>>)

\* the members of an object from position i, acc being those read so far
ParseMembers(toks, i, acc) ==
    IF i > Len(toks) THEN [ok |-> FALSE, val |-> None, next |-> i]
    ELSE IF toks[i] = RBrace THEN [ok |-> TRUE, val |-> JObj(acc), next |-> i + 1]
    ELSE IF toks[i].k /= "key" \/ i + 1 > Len(toks)
         THEN [ok |-> FALSE, val |-> None, next |-> i]
    ELSE IF toks[i + 1].k = "str"
         THEN ParseMembers(toks, i + 2, (toks[i].v :> JStr(toks[i + 1].v)) @@ acc)
    ELSE IF toks[i + 1] = LBrace
         THEN LET sub == ParseObject(toks, i + 1)
              IN  IF sub.ok
                  THEN ParseMembers(toks, sub.next, (toks[i].v :> sub.val) @@ acc)
                  ELSE [ok |-> FALSE, val |-> None, next |-> i]
    ELSE [ok |-> FALSE, val |-> None, next |-> i]

\* json.loads(action_str): the whole text must be one object
json_loads(toks) ==
    LET r == ParseObject(toks, 1)
    IN  IF r.ok /\ r.next = Len(toks) + 1
        THEN [ok |-> TRUE, val |-> r.val]
        ELSE [ok |-> FALSE, val |-> None]

NoMatch == [found |-> FALSE, group |-> <<>>]

\* The first re.search of run (the fenced pattern, DOTALL): the leftmost
\* opening fence that an opening brace follows and after which some closing
\* brace stands before three backquotes (those of an opening fence too);
\* the lazy group runs to the first such closing brace
SearchFenced(toks) ==
    LET closes(i) == {j \in (i + 2)..(Len(toks) - 1) :
                         toks[j] = RBrace /\ toks[j + 1] \in {Fence, FenceJson}}
        starts == {i \in 1..(Len(toks) - 1) :
                      toks[i] = FenceJson /\ toks[i + 1] = LBrace /\ closes(i) /= {}}
    IN  IF starts = {} THEN NoMatch
        ELSE LET i == CHOOSE x \in starts : \A y \in starts : x <= y
                 j == CHOOSE x \in closes(i) : \A y \in closes(i) : x <= y
             IN  [found |-> TRUE, group |-> SubSeq(toks, i + 1, j)]

\* The second re.search of run (a lazy brace-to-brace group, DOTALL): the
\* leftmost opening brace that a closing brace follows, up to the first
\* closing brace after it
SearchBare(toks) ==
    LET closes(i) == {j \in (i + 1)..Len(toks) : toks[j] = RBrace}
        starts == {i \in 1..Len(toks) : toks[i] = LBrace /\ closes(i) /= {}}
    IN  IF starts = {} THEN NoMatch
        ELSE LET i == CHOOSE x \in starts : \A y \in starts : x <= y
                 j == CHOOSE x \in closes(i) : \A y \in closes(i) : x <= y
             IN  [found |-> TRUE, group |-> SubSeq(toks, i, j)]

\* json_match: the fenced search, else the bare one
FirstMatch(fenced, toks) == IF fenced.found THEN fenced ELSE SearchBare(toks)

JsonMatch(toks) == FirstMatch(SearchFenced(toks), toks)

(***************************************************************************)
(* The named responses of the backend in the loop model.                   *)
(***************************************************************************)
\* the tokens of {"tool": "messages", "arguments": {"method": m, "params": {}}}
ToolObjectTokens(m) ==
    <<LBrace, Key("tool"), Str("messages"), Key("arguments"), LBrace,
      Key("method"), Str(m), Key("params"), LBrace, RBrace, RBrace, RBrace>>

\* the tokens of {"action": X}
EnvelopeTokens(x) == <<LBrace, Key("action")>> \o x \o <<RBrace>>

Fenced(toks) == <<FenceJson>> \o toks \o <<Fence>>

Sentinel == "Your detailed answer here."

ResponseTokens(name) ==
    CASE name = "" -> <<>>
      [] name = "prose" -> <<Word, Word>>
      [] name = "bare-envelope" -> EnvelopeTokens(ToolObjectTokens("get_unread_messages"))
      [] name = "fenced-envelope" ->
            Fenced(EnvelopeTokens(ToolObjectTokens("get_unread_messages")))
      [] name = "fenced-capabilities" -> Fenced(ToolObjectTokens("__capabilities__"))
      [] name = "bare-args-string" ->
            <<LBrace, Key("tool"), Str("messages"), Key("arguments"), Str("x"), RBrace>>
      [] name = "bare-flat-tool" -> <<LBrace, Key("tool"), Str("messages"), RBrace>>
      [] name = "bare-final-sentinel" -> <<LBrace, Key("final_answer"), Str(Sentinel), RBrace>>
      [] name = "bare-final-other" -> <<LBrace, Key("final_answer"), Str("done"), RBrace>>

\* what ask_mixtral may return: the empty string once its retries are
\* exhausted, else the content of the backend's message
Responses ==
    {"", "prose", "bare-envelope", "fenced-envelope", "fenced-capabilities",
     "bare-args-string", "bare-flat-tool", "bare-final-sentinel",
     "bare-final-other"}

(***************************************************************************)
(* The items run appends to history.                                       *)
(***************************************************************************)
\* {"action": "parsing_error", "raw_response": ..., "error": str(e)}
ParsingErrorItem(raw, err) ==
    JObj([k \in {"action", "raw_response", "error"} |->
        CASE k = "action" -> JStr("parsing_error")
          [] k = "raw_response" -> JStr(raw)
          [] k = "error" -> JStr(err)])

\* {"action": {"final_answer_proposed": ...}, "result": {"user_feedback": ...}}
FinalAnswerProposedItem(answer, feedback) ==
    JObj([k \in {"action", "result"} |->
        IF k = "action"
        THEN JObj([m \in {"final_answer_proposed"} |-> answer])
        ELSE JObj([m \in {"user_feedback"} |->
                 JStr(IF feedback /= "" THEN feedback ELSE "User rejected the answer.")])])

\* {"action": "goal_updated", "result": {"new_goal": task}}
GoalUpdatedItem(tsk) ==
    JObj([k \in {"action", "result"} |->
        IF k = "action" THEN JStr("goal_updated")
        ELSE JObj([m \in {"new_goal"} |-> JStr(tsk)])])

\* {"action": "emergency_correction", "result": {"user_feedback": text}}
EmergencyCorrectionItem(text) ==
    JObj([k \in {"action", "result"} |->
        IF k = "action" THEN JStr("emergency_correction")
        ELSE JObj([m \in {"user_feedback"} |-> JStr(text)])])

(***************************************************************************)
(* history.json.  The text of the file is the opening bracket, the items   *)
(* and the closing bracket; a write that fails midway leaves a prefix.     *)
(***************************************************************************)
OpenBracket == JLit("[")

CloseBracket == JLit("]")

\* mutant of json_dump: the file is written before the item is appended
json_dump_before_append(h) ==
    [exists |-> TRUE,
     text |-> <<OpenBracket>> \o SubSeq(h, 1, Len(h) - 1) \o <<CloseBracket>>]

\* json.dump(history, f, indent=2, ensure_ascii=False) on the file opened "w"
json_dump(h) ==
    [exists |-> TRUE, text |-> <<OpenBracket>> \o h \o <<CloseBracket>>]

\* mutant of json_load: the items of a text that was cut short are taken
json_load_lenient(text) ==
    IF Len(text) >= 1 /\ text[1] = OpenBracket
    THEN [ok |-> TRUE, items |-> SelectSeq(Tail(text), IsDict)]
    ELSE [ok |-> FALSE, items |-> <<>>]

\* json.load(f): the items of a complete text, JSONDecodeError otherwise
json_load(text) ==
    IF Len(text) >= 2 /\ text[1] = OpenBracket /\ text[Len(text)] = CloseBracket
    THEN [ok |-> TRUE, items |-> SubSeq(text, 2, Len(text) - 1)]
    ELSE [ok |-> FALSE, items |-> <<>>]

\* the file after open(history_file, "w") and json.dump: written, not
\* opened (IOError, the file is as it was), or cut short by an IOError
\* after the open has emptied it
WriteOutcomes(file, h) ==
    {[how |-> "ok", file |-> json_dump(h)],
     [how |-> "open fails", file |-> file],
     [how |-> "cut", file |-> [exists |-> TRUE, text |-> <<OpenBracket>> \o h]]}

(***************************************************************************)
(* run: the reading of the goal and of history.json.                       *)
(***************************************************************************)
\* str.strip() on the texts goal.txt holds in the model: the one that ends
\* with a newline loses it
strip(str) == IF str = "greet user<nl>" THEN "greet user" ELSE str

RunStart ==
    /\ pc = "run_start"
    /\ IF ~goal_file.exists \/ strip(goal_file.text) = ""
       THEN \* FileNotFoundError, or "if not task": return
            /\ pc' = "finally"
            /\ run_result' = "no goal"
            /\ UNCHANGED <<task, history, step, pure>>
       ELSE LET loaded == IF history_file.exists THEN json_load(history_file.text)
                          ELSE [ok |-> FALSE, items |-> <<>>]
            IN  /\ task' = strip(goal_file.text)
                /\ history' = loaded.items
                /\ step' = Len(loaded.items) + 1
                /\ pure' = ~history_file.exists
                /\ pc' = "loop_top"
                /\ UNCHANGED run_result
    /\ UNCHANGED <<transportVars, built, response_text, fileVars, boundVars, cyc,
                   expect, write_failed, ghostVars>>
    /\ UNCHANGED <<persisted, panelVars>>

(***************************************************************************)
(* run: the pause check at the top of the loop.                            *)
(***************************************************************************)
\* "if os.path.exists('paused.flag')": the inner loop is entered
EnterPause ==
    /\ pc = "loop_top"
    /\ paused_flag
    /\ pc' = "paused"
    /\ UNCHANGED <<transportVars, runVars, ghostVars>>
    /\ UNCHANGED <<persisted, panelVars>>

\* mutant of GoalChanged: the goal read again is never taken as new
GoalChangedNever(new_task, tsk) == FALSE

\* "if new_task != task"
GoalChanged(new_task, tsk) == new_task /= tsk

\* the inner loop ends, the goal is read again
Resume ==
    /\ pc = "paused"
    /\ ~paused_flag
    /\ IF goal_file.exists /\ GoalChanged(strip(goal_file.text), task)
       THEN /\ task' = strip(goal_file.text)
            /\ history' = Append(history, GoalUpdatedItem(strip(goal_file.text)))
            /\ pure' = FALSE
       ELSE UNCHANGED <<task, history, pure>>
    /\ pc' = "reason"
    /\ UNCHANGED <<transportVars, built, step, response_text, fileVars, boundVars,
                   run_result, cyc, expect, write_failed, ghostVars>>
    /\ UNCHANGED <<persisted, panelVars>>

(***************************************************************************)
(* run, step 1: the prompt and the reset of history.                       *)
(***************************************************************************)
\* mutant of ResetHistory: the oldest items are kept
ResetHistoryOldest(hist, items_to_keep) == SubSeq(hist, 1, items_to_keep)

\* "history = history[-items_to_keep:] if items_to_keep > 0 else []"
ResetHistory(hist, items_to_keep) ==
    IF items_to_keep > 0 THEN Suffix(hist, items_to_keep) ELSE <<>>

\* a sequence without its first k items
Drop(seq, k) == IF k >= Len(seq) THEN <<>> ELSE SubSeq(seq, k + 1, Len(seq))

Reason ==
    /\ \/ pc = "loop_top" /\ ~paused_flag
       \/ pc = "reason"
    /\ cycles < MaxCycles
    /\ cycles' = cycles + 1
    /\ LET b == create_reasoning_prompt(task, history)
       IN  IF b.raises
           THEN \* the format of the minimal prompt raises ValueError
                /\ pc' = "finally"
                /\ exc' = "ValueError"
                /\ UNCHANGED <<history, step, built, pure, persisted>>
           ELSE /\ built' = [ready |-> TRUE, given |-> history] @@ b
                /\ history' = IF b.needs_reset
                              THEN ResetHistory(history, b.items_to_keep)
                              ELSE history
                /\ step' = IF b.needs_reset THEN Len(history') + 1 ELSE step
                /\ pure' = (pure /\ ~b.needs_reset)
                /\ persisted' = IF b.needs_reset
                                THEN Drop(persisted, Len(history) - b.items_to_keep)
                                ELSE persisted
                /\ pc' = "backend"
                /\ UNCHANGED exc
    /\ UNCHANGED <<request_id, child, stdout_queue, sent, elapsed, got_init_response,
                   tool_names, shutdown_log, current_id, tool_name, tool_args, result,
                   task, response_text, fileVars, restarts, panel_ops, failures,
                   run_result, cyc, expect, write_failed, ghostVars>>
    /\ UNCHANGED panelVars

(***************************************************************************)
(* run, step 2: ask_mixtral and the parsing of the action.                 *)
(***************************************************************************)
\* what input() gives for a proposed answer: a line, or EOFError
Feedbacks == {"", "<EOF>"}

\* How the try block of step 2 ends (continue, proposed, break, raise,
\* dispatch), the item it appends, and tool_name and tool_args where it
\* assigns them.
Outcome(kind, item, assigned, name, arguments) ==
    [kind |-> kind, item |-> item, assigned |-> assigned,
     tool |-> IF assigned THEN name ELSE None,
     args |-> IF assigned THEN arguments ELSE None]

\* "tool_name = action.get('tool')" onwards
ParseToolCall(r, name, arguments) ==
    IF ~Truthy(name) \/ ~IsDict(arguments)
    THEN Outcome("continue",
                 ParsingErrorItem(r, "Invalid tool call structure in Gemma3 4B response"),
                 TRUE, name, arguments)
    ELSE Outcome("dispatch", None, TRUE, name, arguments)

\* "if 'final_answer' in action" onwards
ParseUnwrapped(r, feedback, action) ==
    IF HasKey(action, "final_answer")
    THEN IF Get(action, "final_answer") = JStr(Sentinel)
         THEN Outcome("break", None, FALSE, None, None)
         ELSE IF feedback = "<EOF>"
         THEN Outcome("raise", None, FALSE, None, None)
         ELSE Outcome("proposed",
                      FinalAnswerProposedItem(Get(action, "final_answer"), feedback),
                      FALSE, None, None)
    ELSE ParseToolCall(r, Get(action, "tool"), GetOr(action, "arguments", EmptyObj))

\* the one-level envelope: "if 'action' in action and isinstance(...)"
Unwrap(action) ==
    IF HasKey(action, "action") /\ IsDict(Get(action, "action"))
    THEN Get(action, "action")
    ELSE action

\* "action = json.loads(action_str)" onwards
ParseLoaded(r, feedback, loaded) ==
    IF ~loaded.ok
    THEN Outcome("continue", ParsingErrorItem(r, "json decode error"), FALSE, None, None)
    ELSE ParseUnwrapped(r, feedback, Unwrap(loaded.val))

\* "if not json_match" onwards
ParseMatched(r, feedback, json_match) ==
    IF ~json_match.found
    THEN Outcome("continue", ReasoningErrorItem(r), FALSE, None, None)
    ELSE ParseLoaded(r, feedback, json_loads(json_match.group))

\* the try block of step 2 on the response named r
ParseAction(r, feedback) == ParseMatched(r, feedback, JsonMatch(ResponseTokens(r)))

\* the state after step 2 has ended as a says
AfterParse(r, a) ==
    /\ response_text' = r
    /\ cyc' = [done |-> TRUE, resp |-> r, hist0 |-> history, step0 |-> step,
               sent0 |-> Len(sent)]
    /\ history' = IF a.kind \in {"continue", "proposed"}
                  THEN Append(history, a.item) ELSE history
    /\ step' = IF a.kind = "proposed" THEN step + 1 ELSE step
    /\ pc' = CASE a.kind = "dispatch" -> "dispatch"
               [] a.kind \in {"continue", "proposed"} -> "loop_top"
               [] OTHER -> "finally"
    /\ run_result' = IF a.kind = "break" THEN "goal achieved" ELSE run_result
    /\ exc' = IF a.kind = "raise" THEN "EOFError" ELSE exc
    /\ tool_name' = IF a.assigned THEN a.tool ELSE tool_name
    /\ tool_args' = IF a.assigned THEN a.args ELSE tool_args
    /\ pure' = (pure /\ a.kind = "dispatch")

AskAndParse ==
    /\ pc = "backend"
    /\ \E r \in Responses, fb \in Feedbacks : AfterParse(r, ParseAction(r, fb))
    /\ UNCHANGED <<request_id, child, stdout_queue, sent, elapsed, got_init_response,
                   tool_names, shutdown_log, current_id, result, task, built, fileVars,
                   boundVars, expect, write_failed, ghostVars>>
    /\ UNCHANGED <<persisted, panelVars>>

(***************************************************************************)
(* run, steps 3 and 4 after call_mcp_tool has returned: the capability     *)
(* block, the append, the write of history.json, the correction file.      *)
(***************************************************************************)
\* the exception the capability block raises, "" if none.  The results of
\* the model carry objects only in their content list.
CapabilityBlock(arguments, res) ==
    IF Get(arguments, "method") /= JStr("__capabilities__") \/ ~Truthy(res) THEN ""
    ELSE IF ~IsDict(res) THEN "AttributeError"
    ELSE IF \/ Truthy(Get(res, "isError"))
            \/ ~HasKey(res, "content")
            \/ ~IsList(Get(res, "content")) THEN ""
    ELSE LET content == Get(res, "content").l
         IN  IF \E i \in 1..Len(content) : HasKey(content[i], "text")
             THEN "AttributeError"
             ELSE ""

Record ==
    /\ pc = "after_call"
    /\ LET raised == CapabilityBlock(tool_args, result)
           h1 == Append(history, ToolCallItem(tool_name, tool_args, result))
       IN  IF raised /= ""
           THEN /\ exc' = raised
                /\ pc' = "finally"
                /\ UNCHANGED <<history, step, history_file, correction_file, pure,
                               write_failed, failures, persisted>>
           ELSE /\ \E w \in WriteOutcomes(history_file, h1) :
                      /\ w.how /= "ok" => failures < MaxWriteFailures
                      /\ failures' = IF w.how = "ok" THEN failures ELSE failures + 1
                      /\ history_file' = w.file
                      /\ write_failed' = (w.how /= "ok")
                      /\ persisted' = IF w.how = "ok" THEN h1 ELSE persisted
                      /\ pure' = (pure /\ w.how = "ok" /\ ~correction_file.exists)
                /\ IF correction_file.exists
                   THEN /\ history' = IF correction_file.text /= ""
                                      THEN Append(h1, EmergencyCorrectionItem(
                                                          correction_file.text))
                                      ELSE h1
                        /\ correction_file' = NoTextFile
                   ELSE /\ history' = h1
                        /\ UNCHANGED correction_file
                /\ step' = step + 1
                /\ pc' = "loop_top"
                /\ UNCHANGED exc
    /\ UNCHANGED <<request_id, child, stdout_queue, sent, elapsed, got_init_response,
                   tool_names, shutdown_log, current_id, tool_name, tool_args, result,
                   task, built, response_text, goal_file, paused_flag, cycles,
                   restarts, panel_ops, run_result, cyc, expect, ghostVars>>
    /\ UNCHANGED panelVars

(***************************************************************************)
(* The control panel of app.py.  The agent reads paused.flag at the top of *)
(* the loop and in the pause loop, goal.txt when it resumes, and           *)
(* correction.txt after the write of history.json; a request served        *)
(* earlier in a pass has the effect of one served just before the read.    *)
(***************************************************************************)
PanelPause ==
    /\ pc = "loop_top"
    /\ ~paused_flag
    /\ panel_ops < MaxPanelOps
    /\ paused_flag' = TRUE
    /\ panel_ops' = panel_ops + 1
    /\ UNCHANGED <<pc, transportVars, memVars, goal_file, history_file, correction_file,
                   cycles, restarts, failures, runGhost, ghostVars>>
    /\ UNCHANGED <<persisted, panelVars>>

PanelResume ==
    /\ pc = "paused"
    /\ paused_flag
    /\ paused_flag' = FALSE
    /\ UNCHANGED <<pc, transportVars, memVars, goal_file, history_file, correction_file,
                   boundVars, runGhost, ghostVars>>
    /\ UNCHANGED <<persisted, panelVars>>

\* the goals of the requests: the panel writes the text as it is given,
\* with the newline it may end with
Goals == {"greet user", "greet user<nl>", "new goal"}

PanelUpdateGoal ==
    /\ pc = "paused"
    /\ paused_flag
    /\ goal_file.text = task
    /\ \E g \in Goals \ {goal_file.text} : goal_file' = TextFile(g)
    /\ UNCHANGED <<pc, transportVars, memVars, history_file, paused_flag,
                   correction_file, boundVars, runGhost, ghostVars>>
    /\ UNCHANGED <<persisted, panelVars>>

PanelSubmitCorrection ==
    /\ pc = "after_call"
    /\ ~correction_file.exists
    /\ panel_ops < MaxPanelOps
    /\ correction_file' = TextFile("fix it")
    /\ panel_ops' = panel_ops + 1
    /\ UNCHANGED <<pc, transportVars, memVars, goal_file, history_file, paused_flag,
                   cycles, restarts, failures, runGhost, ghostVars>>
    /\ UNCHANGED <<persisted, panelVars>>

\* the calls that returned, as the items run records for them
RECURSIVE ToolCallItems(_)
ToolCallItems(cs) ==
    IF cs = <<>> THEN <<>>
    ELSE <<ToolCallItem(cs[1].name, cs[1].arguments, cs[1].result)>>
         \o ToolCallItems(Tail(cs))

\* the agent process is terminated between two passes of the loop: no
\* finally clause runs, the files stay
Crash ==
    /\ pc = "loop_top"
    /\ restarts < MaxRestarts
    /\ pc' = "crashed"
    /\ expect' = IF pure THEN [on |-> TRUE, items |-> ToolCallItems(calls)]
                 ELSE NoExpect
    /\ UNCHANGED <<transportVars, memVars, fileVars, boundVars, run_result, cyc, pure,
                   write_failed, ghostVars>>
    /\ UNCHANGED <<persisted, panelVars>>

\* what history.json holds when the process dies between the open "w",
\* which empties the file, and the end of json.dump: nothing, or the text
\* up to some item, without the closing bracket
PartialWrites(h) ==
    {<<>>} \cup {<<OpenBracket>> \o SubSeq(h, 1, k) : k \in 0..Len(h)}

\* the agent process is terminated while it rewrites history.json
CrashInWrite ==
    /\ pc = "after_call"
    /\ restarts < MaxRestarts
    /\ CapabilityBlock(tool_args, result) = ""
    /\ \E text \in PartialWrites(Append(history,
                                        ToolCallItem(tool_name, tool_args, result))) :
          history_file' = [exists |-> TRUE, text |-> text]
    /\ pc' = "crashed"
    /\ expect' = NoExpect
    /\ UNCHANGED <<transportVars, memVars, goal_file, paused_flag, correction_file,
                   boundVars, run_result, cyc, pure, write_failed, ghostVars,
                   persisted, panelVars>>

\* a new agent process is started on the goal of the request
Restart ==
    /\ pc = "crashed"
    /\ pc' = "boot"
    /\ restarts' = restarts + 1
    /\ goal_file' = TextFile("greet user")
    /\ request_id' = 1
    /\ child' = "none"
    /\ stdout_queue' = <<>>
    /\ sent' = <<>>
    /\ elapsed' = 0
    /\ got_init_response' = FALSE
    /\ tool_names' = JList(<<>>)
    /\ shutdown_log' = <<>>
    /\ exc' = ""
    /\ current_id' = 0
    /\ tool_name' = None
    /\ tool_args' = EmptyObj
    /\ result' = EmptyObj
    /\ task' = ""
    /\ history' = <<>>
    /\ built' = NotBuilt
    /\ step' = 0
    /\ response_text' = ""
    /\ run_result' = ""
    /\ cyc' = NoCycle
    /\ pure' = FALSE
    /\ write_failed' = FALSE
    /\ seen_init' = FALSE
    /\ seen_ready' = FALSE
    /\ last_ret' = NoReturn
    /\ calls' = <<>>
    /\ reqlog' = <<>>
    /\ UNCHANGED <<history_file, paused_flag, correction_file, cycles, panel_ops,
                   failures, expect>>
    /\ UNCHANGED <<persisted, panelVars>>

(***************************************************************************)
(* The agent as a whole: construction, handshake, run, and the finally     *)
(* clause, with a child that answers while the agent waits.                *)
(***************************************************************************)
\* what the child prints while the agent waits for it, within the window
\* of the wait and one line at a time
ReplyLines ==
    IF pc = "handshake"
    THEN {Garbage, Response(1, EmptyObj), ToolsReady(<<JStr("messages")>>)}
    ELSE {Garbage, LineOf(JList(<<>>)), ErrorResponse(current_id),
          Response(current_id, ContentResult("<text-30000>")),
          Response(current_id, JStr("ok"))}

ChildReply ==
    /\ child = "running"
    /\ pc \in {"handshake", "wait"}
    /\ elapsed < TimeoutTicks
    /\ stdout_queue = <<>>
    /\ \E line \in ReplyLines : stdout_queue' = <<line>>
    /\ UNCHANGED <<pc, request_id, child, sent, elapsed, got_init_response, tool_names,
                   shutdown_log, exc, current_id, tool_name, tool_args, result,
                   runVars, ghostVars>>
    /\ UNCHANGED <<persisted, panelVars>>

\* a history.json that earlier runs have left: three records of which the
\* prompt holds two
PriorHistory ==
    [i \in 1..3 |->
        ToolCallItem(JStr("messages"),
                     ToolArgs(<<"page-1", "page-2", "page-3">>[i]),
                     ContentResult("<text-9000>"))]

\* the agent is started with or without a goal.txt and with or without a
\* history.json of earlier runs
Init ==
    /\ pc = "boot"
    /\ InitTransport
    /\ built = NotBuilt
    /\ step = 0
    /\ response_text = ""
    /\ history_file \in {NoFile, json_dump(PriorHistory)}
    /\ paused_flag = FALSE
    /\ correction_file = NoTextFile
    /\ cycles = 0
    /\ restarts = 0
    /\ panel_ops = 0
    /\ failures = 0
    /\ run_result = ""
    /\ cyc = NoCycle
    /\ pure = FALSE
    /\ expect = NoExpect
    /\ write_failed = FALSE
    /\ task = ""
    /\ history = <<>>
    /\ goal_file \in {NoTextFile, TextFile(""), TextFile("greet user"),
                      TextFile("<task-long>")}
    /\ persisted = json_load(history_file.text).items
    /\ InitPanel

Next ==
    \/ Construct
    \/ StartFails
    \/ ChildReply
    \/ ChildExit
    \/ Tick
    \/ HandshakeRecv
    \/ HandshakeTimeout
    \/ RunStart
    \/ EnterPause
    \/ Resume
    \/ Reason
    \/ AskAndParse
    \/ CallMcpTool
    \/ WaitRecv
    \/ WaitTimeout
    \/ Record
    \/ MainFinally
    \/ PanelPause
    \/ PanelResume
    \/ PanelUpdateGoal
    \/ PanelSubmitCorrection
    \/ Crash
    \/ CrashInWrite
    \/ Restart

Spec == Init /\ [][Next]_vars

(***************************************************************************)
(* C6.  After a pass of the loop in which the backend's response held no   *)
(* parsable JSON object (the empty string of the exhausted retries         *)
(* included), history has gained exactly one reasoning_error item, no tool *)
(* call has been written to the child, the loop goes on, and the step      *)
(* counter has advanced by one.                                            *)
(***************************************************************************)
NoJsonObject(toks) == \A i \in 1..Len(toks) : ~ParseObject(toks, i).ok

C6_NoJsonStep ==
    (cyc.done /\ pc \in {"loop_top", "finally"} /\ NoJsonObject(ResponseTokens(cyc.resp))) =>
        /\ pc = "loop_top"
        /\ history = Append(cyc.hist0, ReasoningErrorItem(cyc.resp))
        /\ Len(sent) = cyc.sent0
        /\ step = cyc.step0 + 1

(***************************************************************************)
(* C7.  When the backend's response holds an object {"action": X}, X an    *)
(* object with a string tool and an object arguments, fenced as JSON or    *)
(* not, the pass writes to the child one tools/call request whose name is  *)
(* X.tool and whose arguments are X.arguments (unless the child's input is *)
(* closed).                                                                *)
(***************************************************************************)
IsEnvelope(v) ==
    /\ HasKey(v, "action")
    /\ IsDict(Get(v, "action"))
    /\ IsStr(Get(Get(v, "action"), "tool"))
    /\ IsDict(Get(Get(v, "action"), "arguments"))

\* the positions of toks at which an envelope object starts
EnvelopeStarts(toks) ==
    {i \in 1..Len(toks) : ParseObject(toks, i).ok /\ IsEnvelope(ParseObject(toks, i).val)}

\* the X of the first envelope of toks
EnvelopeOf(toks) ==
    Get(ParseObject(toks, CHOOSE i \in EnvelopeStarts(toks) :
                              \A j \in EnvelopeStarts(toks) : i <= j).val, "action")

C7_EnvelopeDispatched ==
    (/\ cyc.done
     /\ EnvelopeStarts(ResponseTokens(cyc.resp)) /= {}
     /\ pc /= "dispatch"
     /\ exc /= "BrokenPipeError") =>
        /\ Len(sent) = cyc.sent0 + 1
        /\ sent[Len(sent)].method = "tools/call"
        /\ sent[Len(sent)].name = Get(EnvelopeOf(ResponseTokens(cyc.resp)), "tool")
        /\ sent[Len(sent)].arguments =
               Get(EnvelopeOf(ResponseTokens(cyc.resp)), "arguments")

(***************************************************************************)
(* C8.  A run that began with no history.json and has only made passes     *)
(* that each dispatched a tool call, with no truncation, no failed write,  *)
(* no correction and no change of goal, stands between two passes with, in *)
(* memory and in history.json, exactly the records of those k calls in the *)
(* order of dispatch, and with step k + 1; and when the process is         *)
(* terminated there and a new run loads the file, the new run enters its   *)
(* loop with those same records in that order and with step k + 1.         *)
(***************************************************************************)
C8_PersistedInOrder ==
    /\ (pure /\ pc = "loop_top") =>
          /\ history = ToolCallItems(calls)
          /\ step = Len(calls) + 1
          /\ calls = <<>> => ~history_file.exists
          /\ calls /= <<>> =>
                /\ history_file.exists
                /\ json_load(history_file.text) =
                       [ok |-> TRUE, items |-> ToolCallItems(calls)]
    /\ (expect.on /\ restarts > 0 /\ pc = "loop_top" /\ ~cyc.done) =>
          /\ history = expect.items
          /\ step = Len(expect.items) + 1

\* two calls with different results were recorded, the process was
\* terminated, and the new run has loaded the file
C8_Witness ==
    /\ expect.on
    /\ Len(expect.items) = 2
    /\ expect.items[1] /= expect.items[2]
    /\ restarts > 0
    /\ pc = "loop_top"
    /\ ~cyc.done
    /\ history = expect.items
    /\ step = 3

(***************************************************************************)
(* C9.  When the loop is about to call the backend and the last write of   *)
(* history.json has not failed, every item of the history in memory is in  *)
(* history.json: the history is the tail of what the file holds.           *)
(***************************************************************************)
IsSuffix(a, b) == Len(a) <= Len(b) /\ a = Suffix(b, Len(a))

C9_PersistedBeforeBackend ==
    (pc = "backend" /\ ~write_failed /\ history /= <<>>) =>
        /\ history_file.exists
        /\ json_load(history_file.text).ok
        /\ IsSuffix(history, json_load(history_file.text).items)

(***************************************************************************)
(* C10.  Once run has loaded a non-empty goal (the handshake has succeeded *)
(* before), run ends only by the sentinel final answer: it never ends by   *)
(* an exception.                                                           *)
(***************************************************************************)
C10_OnlySentinelEndsLoop ==
    (step > 0 /\ pc \in {"finally", "exited"}) =>
        /\ run_result = "goal achieved"
        /\ exc = ""

(***************************************************************************)
(* C11.  At most one request is outstanding: when a request (initialize or *)
(* tools/call) is written to the child, every earlier request has been     *)
(* resolved, by its response having been read or by its wait having timed  *)
(* out.  In the log of requests only the last one can be open.             *)
(***************************************************************************)
C11_SingleFlight ==
    \A i \in 1..Len(reqlog) : reqlog[i].state = "open" => i = Len(reqlog)

\* a third request is outstanding after the second was resolved by timeout
C11_Witness ==
    /\ pc = "wait"
    /\ Len(reqlog) = 3
    /\ reqlog[1].state = "response"
    /\ reqlog[2].state = "timeout"
    /\ reqlog[3].state = "open"

(***************************************************************************)
(* C12.  The ids of the requests of an Agent are taken at send time, start *)
(* at 1 with the initialize request and go up by one per request, whether  *)
(* the request was written or not and however it was resolved: no two      *)
(* requests carry the same id.                                             *)
(***************************************************************************)
IsRequest(payload) == payload.method \in {"initialize", "tools/call"}

C12_IdsIncrease ==
    /\ \A i \in 1..Len(reqlog) : reqlog[i].id = i
    /\ request_id = Len(reqlog) + 1
    /\ \A i, j \in 1..Len(sent) :
          (IsRequest(sent[i]) /\ IsRequest(sent[j]) /\ i < j) => sent[i].id < sent[j].id

\* three ids were taken: one request was answered, one timed out, and one
\* could not be written
C12_Witness ==
    /\ Len(reqlog) = 3
    /\ reqlog[1].state = "response"
    /\ reqlog[2].state = "timeout"
    /\ reqlog[3].state = "unwritten"

(***************************************************************************)
(* C13.  When the agent process ends after it has started the child        *)
(* (whether run returned or an exception was raised in the construction or *)
(* in the loop), Agent.shutdown has run: terminate, the bounded wait, and  *)
(* kill when the child outlived the wait; no child is left running.        *)
(***************************************************************************)
C13_ShutdownOnEveryExit ==
    (pc = "exited" /\ reqlog /= <<>>) =>
        /\ shutdown_log \in {<<"terminate", "wait">>, <<"terminate", "wait", "kill">>}
        /\ child /= "running"

(***************************************************************************)
(* C14.  A pass of the loop that has written a tools/call request whose    *)
(* call returned (a result, or the empty marker of an error response or of *)
(* a timeout) appends to history, before the next pass, one item with the  *)
(* tool name, the arguments and the returned result.                       *)
(***************************************************************************)
\* the last request of the log is the call of the last pass and has returned
LastCallReturned ==
    /\ cyc.done
    /\ Len(sent) = cyc.sent0 + 1
    /\ reqlog /= <<>>
    /\ reqlog[Len(reqlog)].state \in {"response", "timeout"}

C14_DispatchRecorded ==
    (LastCallReturned /\ pc \in {"loop_top", "paused", "reason", "finally", "exited",
                                  "crashed"}) =>
        LET n == Len(cyc.hist0)
            item == ToolCallItem(tool_name, tool_args, result)
        IN  /\ Len(history) > n
            /\ SubSeq(history, 1, n + 1) = Append(cyc.hist0, item)
            /\ \A i \in (n + 2)..Len(history) : history[i] /= item

(***************************************************************************)
(* C15.  When the loop calls the backend, its history is exactly the items *)
(* serialized into the prompt; when the budgeter has reported truncation,  *)
(* that history is the last keptCount items of the history the budgeter    *)
(* was given, in their order, and the step counter is keptCount + 1;       *)
(* otherwise the history is the one the budgeter was given.                *)
(***************************************************************************)
C15_TruncationApplied ==
    pc = "backend" =>
        /\ history = built.items
        /\ built.needs_reset =>
              /\ Len(history) < Len(built.given)
              /\ Len(history) = built.items_to_keep
              /\ history = Suffix(built.given, built.items_to_keep)
              /\ step = built.items_to_keep + 1
        /\ ~built.needs_reset => history = built.given

\* of three items two were kept
C15_Witness ==
    /\ pc = "backend"
    /\ built.needs_reset
    /\ Len(built.given) = 3
    /\ built.items_to_keep = 2
    /\ step = 3

(***************************************************************************)
(* C16.  The budgeter takes the forced-minimal branch exactly when the     *)
(* prompt with an empty history exceeds the ceiling, and in that branch it *)
(* returns a prompt, so that every call of the budgeter returns a prompt   *)
(* that fits the ceiling.                                                  *)
(***************************************************************************)
C16_ForcedMinimalFits ==
    built.ready =>
        /\ built.forced <=> ~WithinCeiling(task, <<>>)
        /\ ~built.raises
        /\ ~built.forced => estimate_tokens(built.m) <= ContextLimit - 35

\* the action that step 2 extracts from the response named r, the empty
\* object where it extracts none
ExtractedAction(r) ==
    LET json_match == JsonMatch(ResponseTokens(r))
    IN  IF json_match.found /\ json_loads(json_match.group).ok
        THEN Unwrap(json_loads(json_match.group).val)
        ELSE EmptyObj

\* the extracted action proposes an answer other than the sentinel
ProposesOther(action) ==
    /\ HasKey(action, "final_answer")
    /\ Get(action, "final_answer") /= JStr(Sentinel)

(***************************************************************************)
(* C17.  In the step that asks the backend and parses the answer, run      *)
(* ends with the goal achieved if and only if the extracted action has a   *)
(* final_answer equal to the sentinel; when it has another final_answer,   *)
(* exactly one final_answer_proposed item with that answer and a feedback  *)
(* is appended, step grows by one, nothing is written to the child, and    *)
(* the loop goes on from its top without an exception.                     *)
(***************************************************************************)
C17_FinalAnswer ==
    [][(pc = "backend" /\ pc' /= "backend") =>
         /\ (run_result' = "goal achieved") <=>
                /\ HasKey(ExtractedAction(response_text'), "final_answer")
                /\ Get(ExtractedAction(response_text'), "final_answer") = JStr(Sentinel)
         /\ ProposesOther(ExtractedAction(response_text')) =>
                /\ pc' = "loop_top"
                /\ exc' = ""
                /\ run_result' = ""
                /\ \E fb \in Feedbacks :
                      history' = Append(history,
                          FinalAnswerProposedItem(
                              Get(ExtractedAction(response_text'), "final_answer"), fb))
                /\ step' = step + 1
                /\ sent' = sent
                /\ request_id' = request_id]_vars

\* step 2 extracts an action from the response named r
Extracts(r) ==
    /\ JsonMatch(ResponseTokens(r)).found
    /\ json_loads(JsonMatch(ResponseTokens(r)).group).ok

\* the shape the tool call must have: a tool that is a string, an arguments
\* field that is there and is an object
WellFormedToolCall(action) ==
    /\ HasKey(action, "tool")
    /\ IsStr(Get(action, "tool"))
    /\ HasKey(action, "arguments")
    /\ IsDict(Get(action, "arguments"))

(***************************************************************************)
(* C18.  In the step that parses the answer, for an extracted action       *)
(* without final_answer: the loop goes to the dispatch only when the       *)
(* action has a tool that is a string and an arguments field that is       *)
(* present and is an object; for every other action exactly one            *)
(* parsing_error item is appended, nothing is written to the child and the *)
(* loop goes on from its top.                                              *)
(***************************************************************************)
C18_DispatchOnlyWellFormed ==
    [][(/\ pc = "backend"
        /\ pc' /= "backend"
        /\ Extracts(response_text')
        /\ ~HasKey(ExtractedAction(response_text'), "final_answer")) =>
         /\ pc' = "dispatch" => WellFormedToolCall(ExtractedAction(response_text'))
         /\ ~WellFormedToolCall(ExtractedAction(response_text')) =>
                /\ pc' = "loop_top"
                /\ Len(history') = Len(history) + 1
                /\ Get(history'[Len(history')], "action") = JStr("parsing_error")
                /\ SubSeq(history', 1, Len(history)) = history
                /\ sent' = sent]_vars

(***************************************************************************)
(* C19.  _wait_for_response never raises: it ends with the result of the   *)
(* response whose id is the awaited one, with the empty object when that   *)
(* response carries an error, or with the empty object when the timeout    *)
(* has elapsed, and it does not poll once the timeout has elapsed.         *)
(***************************************************************************)
C19_WaitAlwaysReturns ==
    /\ last_ret.how \in {"none", "result", "error", "timeout"}
    /\ last_ret.how \in {"error", "timeout"} => last_ret.value = EmptyObj
    /\ pc = "wait" => (exc = "" /\ elapsed <= TimeoutTicks)

\* the places of sent that hold the initialized notification
InitializedWritten == {i \in 1..Len(sent) : sent[i] = InitializedPayload}

(***************************************************************************)
(* C20.  The handshake is over as soon as it has read both the response to *)
(* initialize and a tools_ready notification, whatever they carry, and not *)
(* before; the initialized notification is written at most once, and only  *)
(* when both have been read; the tool list kept is the one tools_ready     *)
(* carried.                                                                *)
(***************************************************************************)
C20_ReadyOnBothSeen ==
    /\ pc = "handshake" => ~(seen_init /\ seen_ready)
    /\ Cardinality(InitializedWritten) <= 1
    /\ InitializedWritten /= {} => (seen_init /\ seen_ready)
    /\ ~seen_ready => tool_names = JList(<<>>)

\* The agent as a whole, started on a goal and without a history.json, with
\* the progress of its pause loop: the main thread polls paused.flag every
\* second and leaves the loop once the flag is gone.
InitPause ==
    /\ Init
    /\ history_file = NoFile
    /\ goal_file = TextFile("greet user")

SpecPause == InitPause /\ [][Next]_vars /\ WF_vars(Resume)

(***************************************************************************)
(* C21.  While paused.flag exists at the top of the loop or in the pause   *)
(* loop, the loop builds no prompt, calls no backend, writes nothing to    *)
(* the child and appends nothing; it leaves the pause loop only when the   *)
(* flag is gone, and once the flag is gone it does leave it; on leaving it *)
(* appends exactly one goal_updated item if and only if the stripped text  *)
(* of goal.txt differs from the task, takes that text as the task, and     *)
(* the next prompt is built on the task.                                   *)
(***************************************************************************)
C21_PauseHoldsLoop ==
    /\ [][/\ (paused_flag /\ pc \in {"loop_top", "paused"}) =>
                /\ pc' \in {"loop_top", "paused", "crashed"}
                /\ cycles' = cycles
                /\ sent' = sent
                /\ history' = history
                /\ task' = task
          /\ (pc = "paused" /\ pc' /= "paused") =>
                /\ ~paused_flag
                /\ pc' = "reason"
                /\ sent' = sent
                /\ IF goal_file.exists /\ strip(goal_file.text) /= task
                   THEN /\ history' = Append(history,
                                             GoalUpdatedItem(strip(goal_file.text)))
                        /\ task' = strip(goal_file.text)
                   ELSE /\ history' = history
                        /\ task' = task
          /\ (pc = "reason" /\ pc' = "backend") =>
                built'.m = PromptMeasure(task, built'.items)]_vars
    /\ (pc = "paused" /\ ~paused_flag) ~> (pc = "reason")

\* the loop was paused, the goal was changed, and the loop has resumed
C21_Witness ==
    /\ pc = "backend"
    /\ task = "new goal"
    /\ history /= <<>>
    /\ history[Len(history)] = GoalUpdatedItem("new goal")
    /\ built.m = PromptMeasure("new goal", history)

(***************************************************************************)
(* C23.  When run loads history.json, the history it starts with is empty  *)
(* or is the array of a complete file: a file that a terminated process or *)
(* a failed write has left cut short is never loaded as a history.         *)
(***************************************************************************)
C23_NoPartialLoad ==
    [][(pc = "run_start" /\ pc' = "loop_top") =>
          /\ history' /= <<>> => history_file = json_dump(history')
          /\ step' = Len(history') + 1]_vars

\* the process died in the rewrite, the file holds an item and no closing
\* bracket, and the next run has started with an empty history
C23_Witness ==
    /\ pc = "loop_top"
    /\ restarts = 1
    /\ history_file.exists
    /\ Len(history_file.text) >= 2
    /\ ~json_load(history_file.text).ok
    /\ history = <<>>
    /\ step = 1

(***************************************************************************)
(* C24.  The history a run loads holds every item of the last completed    *)
(* write of history.json that no reset has removed since, whatever         *)
(* happened to later writes: a failed write, or the end of the process in  *)
(* a write.                                                                *)
(***************************************************************************)
C24_CompletedWriteSurvives ==
    [][(pc = "run_start" /\ pc' = "loop_top") => IsSuffix(persisted, history')]_vars

(***************************************************************************)
(* correction.txt between submit_correction of app.py and the loop of run. *)
(* The panel's request opens the file "w", which creates or empties it,    *)
(* then writes the text and closes; the loop tests that the file exists,   *)
(* reads it, appends the item and removes the file.  The steps of the two  *)
(* processes interleave at their system calls.                             *)
(***************************************************************************)
\* the texts of the corrections, in the order they are submitted
CorrectionTexts == <<"fix it", "stop", "go on", "wait">>

\* the state after construction and handshake, at the top of the loop of a
\* run that began without a history.json
InitCorrection ==
    /\ pc = "pass"
    /\ InitTransport
    /\ InitRun
    /\ InitPanel
    /\ task = "greet user"
    /\ history = <<>>
    /\ goal_file = TextFile("greet user")
    /\ persisted = <<>>

\* one pass of the loop from its top to the write of history.json: none of
\* its steps reads or writes correction.txt; the item of the call is
\* appended
PassToCorrection ==
    /\ pc = "pass"
    /\ cycles < MaxPasses
    /\ cycles' = cycles + 1
    /\ history' = Append(history, ToolCallItem(JStr("messages"),
                                               ToolArgs("get_unread_messages"),
                                               EmptyObj))
    /\ pc' = "corr_check"
    /\ UNCHANGED <<transportVars, task, built, step, response_text, fileVars, restarts,
                   panel_ops, failures, runGhost, ghostVars, persisted, panelVars>>

\* "if os.path.exists(correction_file)", and "step += 1" when it does not
CorrectionExists ==
    /\ pc = "corr_check"
    /\ IF correction_file.exists
       THEN pc' = "corr_read" /\ UNCHANGED step
       ELSE pc' = "pass" /\ step' = step + 1
    /\ UNCHANGED <<transportVars, task, history, built, response_text, fileVars,
                   boundVars, runGhost, ghostVars, persisted, panelVars>>

\* the file is read, and the item appended when the text is not empty
CorrectionRead ==
    /\ pc = "corr_read"
    /\ correction_text' = correction_file.text
    /\ history' = IF correction_file.text /= ""
                  THEN Append(history, EmergencyCorrectionItem(correction_file.text))
                  ELSE history
    /\ pc' = "corr_remove"
    /\ UNCHANGED <<transportVars, task, built, step, response_text, fileVars,
                   boundVars, runGhost, ghostVars, persisted, submit, pid_file, alive,
                   handlers, launched>>

\* os.remove(correction_file), then "step += 1".  While the panel holds the
\* file open, the removal takes the name away and the panel goes on writing
\* to a file that has no name, or, where open files cannot be removed, it
\* raises OSError, which is caught, and the file stays.
CorrectionRemove ==
    /\ pc = "corr_remove"
    /\ \/ /\ correction_file' = NoTextFile
          /\ submit' = IF submit.at = "opened"
                       THEN [submit EXCEPT !.at = "orphaned"] ELSE submit
       \/ /\ submit.at = "opened"
          /\ UNCHANGED <<correction_file, submit>>
    /\ step' = step + 1
    /\ pc' = "pass"
    /\ UNCHANGED <<transportVars, task, history, built, response_text, goal_file,
                   history_file, paused_flag, boundVars, runGhost, ghostVars,
                   persisted, correction_text, pid_file, alive, handlers, launched>>

\* submit_correction: open('correction.txt', 'w')
SubmitOpen ==
    /\ submit.at = "idle"
    /\ submit.n < MaxCorrections
    /\ submit' = [at |-> "opened", text |-> CorrectionTexts[submit.n + 1],
                  n |-> submit.n + 1]
    /\ correction_file' = TextFile("")
    /\ UNCHANGED <<pc, transportVars, memVars, goal_file, history_file, paused_flag,
                   boundVars, runGhost, ghostVars, persisted, correction_text,
                   pid_file, alive, handlers, launched>>

\* submit_correction: f.write(correction) and the close of the file
SubmitWrite ==
    /\ submit.at \in {"opened", "orphaned"}
    /\ correction_file' = IF submit.at = "opened" THEN TextFile(submit.text)
                          ELSE correction_file
    /\ submit' = [submit EXCEPT !.at = "idle"]
    /\ UNCHANGED <<pc, transportVars, memVars, goal_file, history_file, paused_flag,
                   boundVars, runGhost, ghostVars, persisted, correction_text,
                   pid_file, alive, handlers, launched>>

NextCorrection ==
    \/ PassToCorrection
    \/ CorrectionExists
    \/ CorrectionRead
    \/ CorrectionRemove
    \/ SubmitOpen
    \/ SubmitWrite

SpecCorrection == InitCorrection /\ [][NextCorrection]_vars

\* the places of history that hold the correction text
RecordedAt(text) ==
    {i \in 1..Len(history) : history[i] = EmergencyCorrectionItem(text)}

(***************************************************************************)
(* C22.  When the loop removes correction.txt, the text the file holds at  *)
(* that moment has been appended to history as an emergency_correction     *)
(* item; and no submitted correction is in history more than once.         *)
(***************************************************************************)
C22_CorrectionNeverLost ==
    /\ [][(/\ pc = "corr_remove"
           /\ correction_file.exists
           /\ ~correction_file'.exists
           /\ correction_file.text /= "") =>
             RecordedAt(correction_file.text) /= {}]_vars
    /\ [](\A k \in 1..Len(CorrectionTexts) :
             Cardinality(RecordedAt(CorrectionTexts[k])) <= 1)

(***************************************************************************)
(* /start and /stop of app.py.  The server of app.run serves requests in   *)
(* threads, so that the steps of two requests interleave at their system   *)
(* calls; agent.pid and the agent processes are what they share.           *)
(***************************************************************************)
\* is_agent_running(): agent.pid exists and names a process that runs
is_agent_running(file, procs) == file /= 0 /\ file \in procs

InitPanelSpec ==
    /\ pc = "boot"
    /\ InitTransport
    /\ InitRun
    /\ InitPanel
    /\ task = ""
    /\ history = <<>>
    /\ goal_file = NoTextFile
    /\ persisted = <<>>

\* what a step of the panel's /start and /stop leaves alone
PanelUnchanged ==
    UNCHANGED <<pc, transportVars, memVars, history_file, paused_flag, correction_file,
                boundVars, runGhost, ghostVars, persisted, correction_text, submit>>

\* start_agent: "if is_agent_running(): return ... 400"
StartCheck(h) ==
    /\ handlers[h].at = "idle"
    /\ handlers' = IF is_agent_running(pid_file, alive)
                   THEN handlers
                   ELSE [handlers EXCEPT ![h] = [op |-> "start", at |-> "prepare",
                                                 pid |-> 0]]
    /\ UNCHANGED <<goal_file, pid_file, alive, launched>>
    /\ PanelUnchanged

\* start_agent: goal.txt is written and agent.pid removed
StartPrepare(h) ==
    /\ handlers[h].op = "start"
    /\ handlers[h].at = "prepare"
    /\ goal_file' = TextFile("greet user")
    /\ pid_file' = 0
    /\ handlers' = [handlers EXCEPT ![h].at = "launch"]
    /\ UNCHANGED <<alive, launched>>
    /\ PanelUnchanged

\* start_agent: subprocess.Popen([python_executable, "agent.py"])
StartLaunch(h) ==
    /\ handlers[h].op = "start"
    /\ handlers[h].at = "launch"
    /\ launched < MaxLaunches
    /\ launched' = launched + 1
    /\ alive' = alive \cup {launched + 1}
    /\ handlers' = [handlers EXCEPT ![h] = [op |-> "start", at |-> "save",
                                            pid |-> launched + 1]]
    /\ UNCHANGED <<goal_file, pid_file>>
    /\ PanelUnchanged

\* start_agent: the pid is written to agent.pid
StartSave(h) ==
    /\ handlers[h].op = "start"
    /\ handlers[h].at = "save"
    /\ pid_file' = handlers[h].pid
    /\ handlers' = [handlers EXCEPT ![h] = IdleHandler]
    /\ UNCHANGED <<goal_file, alive, launched>>
    /\ PanelUnchanged

\* stop_agent: "if not is_agent_running(): return ... 400"
StopCheck(h) ==
    /\ handlers[h].at = "idle"
    /\ handlers' = IF is_agent_running(pid_file, alive)
                   THEN [handlers EXCEPT ![h] = [op |-> "stop", at |-> "kill",
                                                 pid |-> 0]]
                   ELSE handlers
    /\ UNCHANGED <<goal_file, pid_file, alive, launched>>
    /\ PanelUnchanged

\* stop_agent: the pid is read, the process terminated and waited for; a
\* file that is gone by now, or a process that is, raises into the except
\* clause
StopKill(h) ==
    /\ handlers[h].op = "stop"
    /\ handlers[h].at = "kill"
    /\ alive' = alive \ {pid_file}
    /\ handlers' = [handlers EXCEPT ![h].at = "cleanup"]
    /\ UNCHANGED <<goal_file, pid_file, launched>>
    /\ PanelUnchanged

\* stop_agent: the finally clause removes agent.pid
StopCleanup(h) ==
    /\ handlers[h].op = "stop"
    /\ handlers[h].at = "cleanup"
    /\ pid_file' = 0
    /\ handlers' = [handlers EXCEPT ![h] = IdleHandler]
    /\ UNCHANGED <<goal_file, alive, launched>>
    /\ PanelUnchanged

\* an agent process ends by itself: run has returned or raised
AgentExits ==
    /\ \E p \in alive : alive' = alive \ {p}
    /\ UNCHANGED <<goal_file, pid_file, handlers, launched>>
    /\ PanelUnchanged

NextPanel ==
    \/ \E h \in 1..MaxHandlers : StartCheck(h)
    \/ \E h \in 1..MaxHandlers : StartPrepare(h)
    \/ \E h \in 1..MaxHandlers : StartLaunch(h)
    \/ \E h \in 1..MaxHandlers : StartSave(h)
    \/ \E h \in 1..MaxHandlers : StopCheck(h)
    \/ \E h \in 1..MaxHandlers : StopKill(h)
    \/ \E h \in 1..MaxHandlers : StopCleanup(h)
    \/ AgentExits

SpecPanel == InitPanelSpec /\ [][NextPanel]_vars

(***************************************************************************)
(* C25.  At most one agent process launched by the panel is alive at a     *)
(* time, and /start launches a process only when no agent process is       *)
(* running.                                                                *)
(***************************************************************************)
C25_SingleAgent ==
    /\ [](Cardinality(alive) <= 1)
    /\ [][launched' /= launched => alive = {}]_vars

=============================================================================
